---- MODULE Spec2Model ----
(***************************************************************************)
(* DumpTree.py: main() creates <root>/docs/project_tree.txt, writes a      *)
(* header and the root line, and print_tree() renders the directory tree   *)
(* depth-first into it.                                                    *)
(*                                                                         *)
(* Text is modelled as Python models it: a string is a sequence of Unicode *)
(* code points, so concatenation is \o, len() is Len, sorted() compares    *)
(* code points and str.endswith compares a suffix.  A path is the sequence *)
(* of entry names below the root given on the command line.                *)
(***************************************************************************)
EXTENDS Integers, Sequences, FiniteSets, TLC

VARIABLES fs, fs0, pc, stack, call, fopen, out, origin, stdout, clock, run, history

vars == <<fs, fs0, pc, stack, call, fopen, out, origin, stdout, clock, run, history>>

\* fs       the file system below the root: path -> what is there
\* fs0      the file system as it was before the first run
\* pc       where the process is: "idle" (not running), "call" (print_tree is
\*          being entered), "loop" (inside the loops), "print" (file closed)
\* stack    the print_tree calls in progress, outermost first: root, entries,
\*          i (the entries of the loop already taken) and prefix
\* call     the arguments of the print_tree call being entered
\* fopen    the output file is open
\* out      the content of the output file: one element for each write()
\* origin   for each element of out, the path of the entry print_tree wrote it
\*          for (<<>> for the writes of main)
\* stdout   the lines printed on standard output
\* clock    seconds on the wall clock since the first run
\* run      the runs of main that have ended (main is run twice)
\* history  how each run ended and what the output file held then

----------------------------------------------------------------------------
(* Bounds of the model *)

\* entries (files and directories) below the root before the first run
MaxNodes == 3
\* seconds that may pass between the first and the second run
MaxClock == 1

\* bytes the text layer of open() holds back before it hands them to the file
BufferSize == 8192

----------------------------------------------------------------------------
(* String literals of the source, as code points *)

s_git == <<46, 103, 105, 116>>                   \* ".git"
s_idea == <<46, 105, 100, 101, 97>>              \* ".idea"
s_out == <<111, 117, 116>>                       \* "out"
s_build == <<98, 117, 105, 108, 100>>            \* "build"
s_dotclass == <<46, 99, 108, 97, 115, 115>>      \* ".class"
s_dotiml == <<46, 105, 109, 108>>                \* ".iml"
s_last == <<9492, 9472, 9472, 32>>               \* "(U+2514)(U+2500)(U+2500) "
s_tee == <<9500, 9472, 9472, 32>>                \* "(U+251C)(U+2500)(U+2500) "
s_blank == <<32, 32, 32, 32>>                    \* "    "
s_bar == <<9474, 32, 32, 32>>                    \* "(U+2502)   "
s_slash == <<47>>                                \* "/"
s_nl == <<10>>                                   \* "\n"
s_space == <<32>>                                \* " "
s_EMPTY == <<91, 69, 77, 80, 84, 89, 93>>        \* "[EMPTY]"
s_OK == <<91, 79, 75, 93>>                       \* "[OK]"
s_unknown == <<91, 63, 93>>                      \* "[?]"
s_docs == <<100, 111, 99, 115>>                  \* "docs" of "docs/"
s_project_tree == <<112, 114, 111, 106, 101, 99, 116, 95, 116, 114, 101, 101, 46, 116, 120, 116>> \* "project_tree.txt"
s_Generated == <<71, 101, 110, 101, 114, 97, 116, 101, 100, 58, 32>>  \* "Generated: "
s_local == <<32, 40, 108, 111, 99, 97, 108, 41, 10, 10>>                \* " (local)\n\n"
s_Saved == <<83, 97, 118, 101, 100, 32, 116, 114, 101, 101, 32, 116, 111, 32>> \* "Saved tree to "

\* the names the exclusion set literal of print_tree holds
ExcludedNames == {s_git, s_idea, s_out, s_build}
\* the suffixes the endswith tuple of print_tree holds
ExcludedSuffixes == {s_dotclass, s_dotiml}

----------------------------------------------------------------------------
(* The environment: entry names, the root's name, the file system *)

n_Aclass == <<65, 46, 99, 108, 97, 115, 115>>    \* "A.class"
n_miml == <<109, 46, 105, 109, 108>>             \* "m.iml"
n_a == <<97>>                                    \* "a"
n_ab == <<97, 98>>                               \* "ab"
n_outs == <<111, 117, 116, 115>>                 \* "outs"
n_proj == <<112, 114, 111, 106>>                 \* "proj"

\* the name of the root directory: basename(abspath(root))
RootName == n_proj
\* the root argument of the command line: "." (the default)
RootArg == <<46>>

Dir == [isdir |-> TRUE, ok |-> TRUE, size |-> 0]        \* a directory that can be listed
NoListDir == [isdir |-> TRUE, ok |-> FALSE, size |-> 0] \* a directory whose listing fails
File(n) == [isdir |-> FALSE, ok |-> TRUE, size |-> n]   \* a file of n bytes
NoStat == [isdir |-> FALSE, ok |-> FALSE, size |-> 0]   \* an entry whose size cannot be read

\* the entries the environment may create below a directory: a name and what it is
Candidates ==
    { [name |-> s_git, node |-> Dir],
      [name |-> s_build, node |-> Dir],
      [name |-> s_out, node |-> File(1)],
      [name |-> s_idea, node |-> File(0)],
      [name |-> n_Aclass, node |-> File(1)],
      [name |-> n_miml, node |-> Dir],
      [name |-> n_a, node |-> Dir],
      [name |-> n_a, node |-> NoListDir],
      [name |-> n_ab, node |-> File(0)],
      [name |-> n_ab, node |-> NoStat],
      [name |-> n_outs, node |-> File(1)],
      [name |-> s_docs, node |-> Dir],
      [name |-> s_docs, node |-> File(1)] }

Parent(p) == SubSeq(p, 1, Len(p) - 1)
Base(p) == p[Len(p)]

\* os.path.join(root, entry), relative to the root of the run
Join(dir, entry) == Append(dir, entry)

\* os.path.isdir(path)
IsDir(f, p) == p \in DOMAIN f /\ f[p].isdir

\* os.listdir(dir): the names of the entries of dir, in no particular order
ListDir(f, dir) == {Base(p) : p \in {q \in DOMAIN f : Len(q) = Len(dir) + 1 /\ Parent(q) = dir}}

\* outdir and outfile of main, relative to the root
OutDir == <<s_docs>>
OutFile == <<s_docs, s_project_tree>>

----------------------------------------------------------------------------
(* Pure functions of the source *)

Min(a, b) == IF a <= b THEN a ELSE b

\* a < b on Python strings: the first differing code point decides, and a proper
\* prefix is smaller
LexLess(a, b) ==
    \E k \in 1..(Min(Len(a), Len(b)) + 1) :
        /\ \A j \in 1..(k - 1) : a[j] = b[j]
        /\ IF k > Len(a) THEN k <= Len(b)
           ELSE k <= Len(b) /\ a[k] < b[k]

\* Sorted in descending order
RECURSIVE SortedDescending(_)
SortedDescending(S) ==
    IF S = {} THEN <<>>
    ELSE LET m == CHOOSE x \in S : \A y \in S : x = y \/ LexLess(y, x)
         IN <<m>> \o SortedDescending(S \ {m})

\* sorted(names)
RECURSIVE Sorted(_)
Sorted(S) ==
    IF S = {} THEN <<>>
    ELSE LET m == CHOOSE x \in S : \A y \in S : x = y \/ LexLess(x, y)
         IN <<m>> \o Sorted(S \ {m})

\* e.endswith(suffix)
EndsWith(e, suffix) ==
    /\ Len(e) >= Len(suffix)
    /\ SubSeq(e, Len(e) - Len(suffix) + 1, Len(e)) = suffix

\* Retained with the suffix test left out
RetainedNoSuffix(e) == e \notin ExcludedNames
\* Retained with "build" missing from the set of names
RetainedNoBuild(e) ==
    /\ e \notin (ExcludedNames \ {s_build})
    /\ ~ \E suffix \in ExcludedSuffixes : EndsWith(e, suffix)

\* the condition of the list comprehension of print_tree
Retained(e) ==
    /\ e \notin ExcludedNames
    /\ ~ \E suffix \in ExcludedSuffixes : EndsWith(e, suffix)

\* [e for e in entries if ...]
RECURSIVE Filter(_)
Filter(entries) ==
    IF entries = <<>> THEN <<>>
    ELSE (IF Retained(Head(entries)) THEN <<Head(entries)>> ELSE <<>>)
         \o Filter(Tail(entries))

\* lines 8-10: the entries print_tree iterates over
Entries(f, dir) == Filter(Sorted(ListDir(f, dir)))

\* Connector with the first entry taken for the last
ConnectorOfFirst(i, n) == IF i = 1 THEN s_last ELSE s_tee
\* Extension with its two strings exchanged
ExtensionSwapped(i, n) == IF i = n THEN s_bar ELSE s_blank

\* connector and extension of the entry at position i (from 1) of n
Connector(i, n) == IF i = n THEN s_last ELSE s_tee
Extension(i, n) == IF i = n THEN s_blank ELSE s_bar

\* Status with size <= 1 for size == 0
StatusOffByOne(size) == IF size <= 1 THEN s_EMPTY ELSE s_OK

\* "[EMPTY]" if size == 0 else "[OK]"
Status(size) == IF size = 0 THEN s_EMPTY ELSE s_OK

DirLine(prefix, connector, entry) == prefix \o connector \o entry \o s_slash \o s_nl
FileLine(prefix, connector, entry, status) ==
    prefix \o connector \o entry \o s_space \o status \o s_nl

\* datetime.now().strftime("%Y-%m-%d %H:%M:%S") at t seconds (t < 60) after the
\* first run, which starts at 2024-01-01 00:00:00
Strftime(t) ==
    <<50, 48, 50, 52, 45, 48, 49, 45, 48, 49, 32, 48, 48, 58, 48, 48, 58,
      48 + ((t \div 10) % 6), 48 + (t % 10)>>

Header(t) == s_Generated \o Strftime(t) \o s_local
RootLine == RootName \o s_slash \o s_nl

\* bytes of one code point and of a string in UTF-8
Utf8Len(c) == IF c < 128 THEN 1 ELSE IF c < 2048 THEN 2 ELSE IF c < 65536 THEN 3 ELSE 4
RECURSIVE Utf8Bytes(_)
Utf8Bytes(s) == IF s = <<>> THEN 0 ELSE Utf8Len(Head(s)) + Utf8Bytes(Tail(s))
RECURSIVE Written(_)
Written(chunks) == IF chunks = <<>> THEN 0 ELSE Utf8Bytes(Head(chunks)) + Written(Tail(chunks))

\* the size of the output file while it is open: what was written less what the
\* buffer still holds
DiskSize(chunks) == (Written(chunks) \div BufferSize) * BufferSize

\* os.path.getsize(path): the size read, or -1 when it raises OSError. While the
\* output file is open its size is its size at open() plus what left the buffer.
GetSize(f, p, chunks, open) ==
    IF ~ f[p].ok THEN -1
    ELSE IF p = OutFile /\ open THEN f[p].size + DiskSize(chunks)
    ELSE f[p].size

----------------------------------------------------------------------------
(* The state machine *)

Init == /\ fs \in {(<<>> :> Dir), (<<>> :> NoListDir)}
        /\ fs0 = fs
        /\ pc = "idle"
        /\ stack = <<>>
        /\ call = <<>>
        /\ fopen = FALSE
        /\ out = <<>>
        /\ origin = <<>>
        /\ stdout = <<>>
        /\ clock = 0
        /\ run = 0
        /\ history = <<>>

NoCall == [root |-> <<>>, prefix |-> <<>>]
Top == stack[Len(stack)]
\* print_tree returns: every call whose loop is over is left, innermost first
RECURSIVE Unwind(_)
Unwind(st) ==
    IF st # <<>> /\ st[Len(st)].i = Len(st[Len(st)].entries)
    THEN Unwind(SubSeq(st, 1, Len(st) - 1))
    ELSE st

\* the file system once the output file is closed: everything written is on disk
Closed(f, chunks) == [f EXCEPT ![OutFile] = File(Written(chunks))]

\* the environment creates the entry c below the directory d before the first run
Populate(d, c) ==
    /\ pc = "idle" /\ run = 0
    /\ Cardinality(DOMAIN fs) - 1 < MaxNodes
    /\ d \in DOMAIN fs /\ fs[d] = Dir
    /\ c.name \notin ListDir(fs, d)
    /\ fs' = fs @@ (Join(d, c.name) :> c.node)
    /\ fs0' = fs'
    /\ UNCHANGED <<pc, stack, call, fopen, out, origin, stdout, clock, run, history>>

\* a second passes between the first run and the second
Tick ==
    /\ pc = "idle" /\ run = 1
    /\ clock < MaxClock
    /\ clock' = clock + 1
    /\ UNCHANGED <<fs, fs0, pc, stack, call, fopen, out, origin, stdout, run, history>>

\* os.makedirs(outdir, exist_ok=True) raises when docs exists and is no directory
MakedirsFails(f) == OutDir \in DOMAIN f /\ ~ f[OutDir].isdir
MakeDirs(f) == IF OutDir \in DOMAIN f THEN f ELSE f @@ (OutDir :> Dir)
\* open(outfile, "w") raises when project_tree.txt is a directory
OpenFails(f) == IsDir(f, OutFile)
\* OpenW without the truncation: an existing file keeps its bytes
OpenNoTruncate(f) == IF OutFile \in DOMAIN f THEN f ELSE (OutFile :> File(0)) @@ f
\* open(outfile, "w") creates the file or truncates it
OpenW(f) == (OutFile :> File(0)) @@ f

\* main, lines 29-34, when makedirs or open raises: the run ends before a byte
\* is written
MainFail ==
    /\ pc = "idle" /\ run < 2
    /\ MakedirsFails(fs) \/ OpenFails(MakeDirs(fs))
    /\ fs' = IF MakedirsFails(fs) THEN fs ELSE MakeDirs(fs)
    /\ run' = run + 1
    /\ history' = Append(history, [status |-> "failed", content |-> <<>>])
    /\ UNCHANGED <<fs0, pc, stack, call, fopen, out, origin, stdout, clock>>

\* main, lines 29-40: the directory and the file are created, the header and the
\* root line are written and print_tree(root, f) is called
MainStart ==
    /\ pc = "idle" /\ run < 2
    /\ ~ MakedirsFails(fs) /\ ~ OpenFails(MakeDirs(fs))
    /\ fs' = OpenW(MakeDirs(fs))
    /\ fopen' = TRUE
    /\ out' = <<Header(clock), RootLine>>
    /\ origin' = << <<>>, <<>> >>
    /\ call' = [root |-> <<>>, prefix |-> <<>>]
    /\ pc' = "call"
    /\ UNCHANGED <<fs0, stack, stdout, clock, run, history>>

\* Enter with the loop starting at the second entry
EnterSkipFirst ==
    /\ pc = "call"
    /\ fs[call.root].ok
    /\ stack' = Unwind(Append(stack, [root |-> call.root, entries |-> Entries(fs, call.root),
                                      i |-> Min(1, Len(Entries(fs, call.root))),
                                      prefix |-> call.prefix]))
    /\ call' = NoCall
    /\ pc' = "loop"
    /\ UNCHANGED <<fs, fs0, fopen, out, origin, stdout, clock, run, history>>

\* print_tree, lines 7-10: the directory is listed, sorted and filtered; a call
\* with nothing to iterate over returns at once
Enter ==
    /\ pc = "call"
    /\ fs[call.root].ok
    /\ stack' = Unwind(Append(stack, [root |-> call.root, entries |-> Entries(fs, call.root),
                                      i |-> 0, prefix |-> call.prefix]))
    /\ call' = NoCall
    /\ pc' = "loop"
    /\ UNCHANGED <<fs, fs0, fopen, out, origin, stdout, clock, run, history>>

\* ListFail with the error caught and the directory taken for empty
ListFailSwallowed ==
    /\ pc = "call"
    /\ ~ fs[call.root].ok
    /\ stack' = Unwind(Append(stack, [root |-> call.root, entries |-> <<>>,
                                      i |-> 0, prefix |-> call.prefix]))
    /\ call' = NoCall
    /\ pc' = "loop"
    /\ UNCHANGED <<fs, fs0, fopen, out, origin, stdout, clock, run, history>>

\* print_tree, line 8, when os.listdir raises: nothing catches it, every frame is
\* left, the with statement of main closes the file and the process ends
ListFail ==
    /\ pc = "call"
    /\ ~ fs[call.root].ok
    /\ stack' = <<>>
    /\ call' = NoCall
    /\ fopen' = FALSE
    /\ fs' = Closed(fs, out)
    /\ pc' = "idle"
    /\ run' = run + 1
    /\ history' = Append(history, [status |-> "aborted", content |-> out])
    /\ UNCHANGED <<fs0, out, origin, stdout, clock>>

\* VisitDir with the recursion put off until the calls in progress are over
VisitDirDeferred ==
    /\ pc = "loop" /\ stack # <<>>
    /\ Top.i < Len(Top.entries)
    /\ LET i == Top.i + 1
           n == Len(Top.entries)
           entry == Top.entries[i]
           path == Join(Top.root, entry)
       IN /\ IsDir(fs, path)
          /\ out' = Append(out, DirLine(Top.prefix, Connector(i, n), entry))
          /\ origin' = Append(origin, path)
          /\ stack' = Unwind(<<[root |-> path, entries |-> Entries(fs, path), i |-> 0,
                                prefix |-> Top.prefix \o Extension(i, n)]>>
                             \o [stack EXCEPT ![Len(stack)].i = i])
    /\ UNCHANGED <<fs, fs0, pc, call, fopen, stdout, clock, run, history>>

\* print_tree, lines 12-19: the next entry is a directory; its line is written
\* and print_tree is called on it
VisitDir ==
    /\ pc = "loop" /\ stack # <<>>
    /\ Top.i < Len(Top.entries)
    /\ LET i == Top.i + 1
           n == Len(Top.entries)
           entry == Top.entries[i]
           path == Join(Top.root, entry)
       IN /\ IsDir(fs, path)
          /\ out' = Append(out, DirLine(Top.prefix, Connector(i, n), entry))
          /\ origin' = Append(origin, path)
          /\ stack' = [stack EXCEPT ![Len(stack)].i = i]
          /\ call' = [root |-> path, prefix |-> Top.prefix \o Extension(i, n)]
          /\ pc' = "call"
    /\ UNCHANGED <<fs, fs0, fopen, stdout, clock, run, history>>

\* print_tree, lines 12-14 and 20-26: the next entry is no directory; with the
\* last entry of a call the call returns
VisitFile ==
    /\ pc = "loop" /\ stack # <<>>
    /\ Top.i < Len(Top.entries)
    /\ LET i == Top.i + 1
           n == Len(Top.entries)
           entry == Top.entries[i]
           path == Join(Top.root, entry)
           size == GetSize(fs, path, out, fopen)
           status == IF size < 0 THEN s_unknown ELSE Status(size)
       IN /\ ~ IsDir(fs, path)
          /\ out' = Append(out, FileLine(Top.prefix, Connector(i, n), entry, status))
          /\ origin' = Append(origin, path)
          /\ stack' = Unwind([stack EXCEPT ![Len(stack)].i = i])
    /\ UNCHANGED <<fs, fs0, pc, call, fopen, stdout, clock, run, history>>

\* main, line 34: print_tree(root, f) has returned and the with statement closes
\* the file
Finish ==
    /\ pc = "loop" /\ stack = <<>>
    /\ fopen' = FALSE
    /\ fs' = Closed(fs, out)
    /\ pc' = "print"
    /\ UNCHANGED <<fs0, stack, call, out, origin, stdout, clock, run, history>>

\* outfile as main joins it: root + "/" + "docs/" + "project_tree.txt"
OutFileName == RootArg \o s_slash \o s_docs \o s_slash \o s_project_tree

\* main, line 42
PrintSaved ==
    /\ pc = "print"
    /\ stdout' = Append(stdout, s_Saved \o OutFileName \o s_nl)
    /\ pc' = "idle"
    /\ run' = run + 1
    /\ history' = Append(history, [status |-> "done", content |-> out])
    /\ UNCHANGED <<fs, fs0, stack, call, fopen, out, origin, clock>>

Next ==
    \/ \E d \in DOMAIN fs, c \in Candidates : Populate(d, c)
    \/ Tick
    \/ MainFail
    \/ MainStart
    \/ Enter
    \/ ListFail
    \/ VisitDir
    \/ VisitFile
    \/ Finish
    \/ PrintSaved

Spec == Init /\ [][Next]_vars

----------------------------------------------------------------------------
(* Reading the output back: what a line says, and what the tree holds *)

\* the lines print_tree wrote (the header and the root line are main's)
EntryIdx == {k \in 1..Len(out) : origin[k] # <<>>}

IsConnectorChar(c) == c \in {9492, 9500}
\* where the connector of an entry line starts
ConnPos(line) == CHOOSE c \in 1..Len(line) :
                    /\ IsConnectorChar(line[c])
                    /\ \A j \in 1..(c - 1) : ~ IsConnectorChar(line[j])
PrefixOf(line) == SubSeq(line, 1, ConnPos(line) - 1)
ConnOf(line) == SubSeq(line, ConnPos(line), ConnPos(line) + 3)
\* what follows the connector, without the newline
TextOf(line) == SubSeq(line, ConnPos(line) + 4, Len(line) - 1)
IsDirLine(line) == line[Len(line) - 1] = 47
LastSpace(t) == CHOOSE c \in 1..Len(t) : t[c] = 32 /\ \A j \in (c + 1)..Len(t) : t[j] # 32
\* the entry name a line shows, and the status of a file line
NameOf(line) ==
    LET t == TextOf(line)
    IN IF IsDirLine(line) THEN SubSeq(t, 1, Len(t) - 1) ELSE SubSeq(t, 1, LastSpace(t) - 1)
StatusOf(line) == LET t == TextOf(line) IN SubSeq(t, LastSpace(t) + 1, Len(t))

\* the exclusion rule as the specification words it
HasSuffix(e, suf) ==
    /\ Len(e) >= Len(suf)
    /\ \A j \in 1..Len(suf) : e[Len(e) - Len(suf) + j] = suf[j]
NamedExcluded(e) ==
    \/ e = s_git \/ e = s_idea \/ e = s_out \/ e = s_build
    \/ HasSuffix(e, s_dotclass) \/ HasSuffix(e, s_dotiml)

\* lexicographic order of names, by code point
RECURSIVE Lex(_, _)
Lex(a, b) ==
    IF b = <<>> THEN FALSE
    ELSE IF a = <<>> THEN TRUE
    ELSE \/ Head(a) < Head(b)
         \/ Head(a) = Head(b) /\ Lex(Tail(a), Tail(b))

\* the non-excluded entries of the directory d
Kept(d) == {e \in ListDir(fs, d) : ~ NamedExcluded(e)}
\* p is the lexicographically last non-excluded entry of its directory
IsLastKept(p) == \A e \in Kept(Parent(p)) : e = Base(p) \/ Lex(e, Base(p))
\* the lines written for the direct children of d
LinesOf(d) == {k \in EntryIdx : Parent(origin[k]) = d}
\* the directories print_tree was called on in a run that was not aborted
Levels == {<<>>} \cup {origin[k] : k \in {j \in EntryIdx : IsDir(fs, origin[j])}}

RunEnded(status) == pc = "idle" /\ run > 0 /\ history[run].status = status

\* every line shows the name of the entry it was written for
LinesNameTheirEntry == \A k \in EntryIdx : NameOf(out[k]) = Base(origin[k])

----------------------------------------------------------------------------
(* The claims *)

\* C1: no line print_tree writes names an entry called .git, .idea, out or build,
\* or ending in .class or .iml, at any depth; an excluded directory is never
\* recursed into, so no line is written for anything below one either.
C1_ExcludedNeverWritten ==
    \A k \in EntryIdx :
        /\ ~ NamedExcluded(NameOf(out[k]))
        /\ NameOf(out[k]) = Base(origin[k])
        /\ \A j \in 1..Len(origin[k]) : ~ NamedExcluded(origin[k][j])

\* a finished run over a tree with a nested build/ directory that has an entry
\* in it, below a directory that was rendered
C1_Witness ==
    /\ RunEnded("done")
    /\ \E p \in DOMAIN fs :
          /\ Len(p) = 3 /\ p[2] = s_build /\ fs[Parent(p)].isdir
          /\ \E k \in EntryIdx : origin[k] = <<p[1]>>

\* the root holds only the directories build/ and .git/ before the first run
Scenario(f) ==
    /\ f[<<>>].ok
    /\ ListDir(f, <<>>) = {s_build, s_git}
    /\ f[<<s_build>>].isdir /\ f[<<s_git>>].isdir

\* C2 as the specification states it: in the scenario the root line is followed
\* by no entry line.
C2_NoChildren ==
    (run >= 1 /\ Scenario(fs0) /\ history[1].status = "done")
        => Len(history[1].content) = 2

l_root == <<112, 114, 111, 106, 47, 10>>   \* "proj/\n"
l_docs == <<9492, 9472, 9472, 32, 100, 111, 99, 115, 47, 10>>   \* "(U+2514)(U+2500)(U+2500) docs/\n"
l_tree == <<32, 32, 32, 32, 9492, 9472, 9472, 32, 112, 114, 111, 106, 101, 99, 116, 95, 116, 114, 101, 101, 46, 116, 120, 116, 32, 91, 69, 77, 80, 84, 89, 93, 10>>   \* "    (U+2514)(U+2500)(U+2500) project_tree.txt [EMPTY]\n"

\* C2, amended: in the scenario the root line is followed by the lines of the
\* docs/ directory main itself creates, and by nothing else: no line for build,
\* .git or anything below them.
C2_OnlyOwnDocs ==
    \A r \in 1..run :
        Scenario(fs0) =>
            /\ history[r].status = "done"
            /\ Len(history[r].content) = 4
            /\ SubSeq(history[r].content, 2, 4) = <<l_root, l_docs, l_tree>>

\* the first run has ended on a root that held build/, with an entry in it, and .git/
C2_Witness ==
    /\ run >= 1 /\ Scenario(fs0)
    /\ \E p \in DOMAIN fs0 : Parent(p) = <<s_build>>

\* C3 as the specification states it: at every level visited, the empty ones
\* included, exactly one entry has the last-entry connector, it is the
\* lexicographically last retained entry, and every other entry has the tee.
C3_OneLastPerLevel ==
    RunEnded("done") =>
        \A d \in Levels :
            \E k \in LinesOf(d) :
                /\ ConnOf(out[k]) = s_last
                /\ IsLastKept(origin[k])
                /\ \A j \in LinesOf(d) \ {k} : ConnOf(out[j]) = s_tee

\* C3, amended: a line has the last-entry connector exactly when its entry is the
\* lexicographically last retained entry of its level, and the tee otherwise; so a
\* rendered level with a retained entry has exactly one last-entry connector and
\* a level whose retained list is empty has none.
C3_LastIffLastKept ==
    /\ \A k \in EntryIdx :
          ConnOf(out[k]) = IF IsLastKept(origin[k]) THEN s_last ELSE s_tee
    /\ RunEnded("done") =>
          \A d \in Levels :
              Cardinality({k \in LinesOf(d) : ConnOf(out[k]) = s_last})
                  = IF Kept(d) = {} THEN 0 ELSE 1

\* a finished run that visited a level with no retained entry and a level with
\* three
C3_Witness ==
    /\ RunEnded("done")
    /\ \E d \in Levels : Kept(d) = {}
    /\ \E d \in Levels : Cardinality(Kept(d)) >= 3

\* the directories whose listing succeeded in the run
Listed == {d \in Levels : fs[d].ok}
\* the lines of the level d and its retained entries correspond one to one
OneLinePerKept(d) ==
    /\ Cardinality(LinesOf(d)) = Cardinality(Kept(d))
    /\ {NameOf(out[k]) : k \in LinesOf(d)} = Kept(d)

\* C4 as the specification states it: for all trees, at every level visited, the
\* lines of the level and its non-excluded entries correspond one to one.
C4_CountAtEveryLevel ==
    (RunEnded("done") \/ RunEnded("aborted")) => \A d \in Listed : OneLinePerKept(d)

\* C4, amended: in a run that no listing failure aborts, the lines of every level
\* visited and its non-excluded entries correspond one to one; in any run no
\* entry is written twice and every line is the line of one non-excluded entry.
C4_CountWhenNotAborted ==
    /\ RunEnded("done") => \A d \in Listed : OneLinePerKept(d)
    /\ \A k \in EntryIdx :
          /\ NameOf(out[k]) \in Kept(Parent(origin[k]))
          /\ \A j \in EntryIdx : origin[j] = origin[k] => j = k

\* a finished run that visited a nested level holding retained and excluded entries
C4_Witness ==
    /\ RunEnded("done")
    /\ \E d \in Levels : d # <<>> /\ Kept(d) # {} /\ ListDir(fs, d) # Kept(d)

\* C5: the lines of the direct children of a directory appear in strictly
\* ascending lexicographic order of entry name.
C5_SiblingsAscending ==
    \A j \in EntryIdx : \A k \in EntryIdx :
        (j < k /\ Parent(origin[j]) = Parent(origin[k]))
            => Lex(NameOf(out[j]), NameOf(out[k]))

\* the root level was rendered with a, ab and docs
C5_Witness ==
    {<<n_a>>, <<n_ab>>, <<s_docs>>} \subseteq {origin[k] : k \in EntryIdx}

IsProperPrefix(d, p) == Len(d) < Len(p) /\ SubSeq(p, 1, Len(d)) = d

\* C6: print_tree is depth-first: the lines of everything below a directory d
\* follow the line of d without a gap, so they come before the line of the next
\* sibling of d and no line of another subtree stands between them.
C6_SubtreeContiguous ==
    \A j \in EntryIdx :
        IsDirLine(out[j]) =>
            \A k \in EntryIdx :
                IsProperPrefix(origin[j], origin[k]) =>
                    /\ k > j
                    /\ \A l \in (j + 1)..k : IsProperPrefix(origin[j], origin[l])

\* a finished run with a directory that has lines two levels below it and a
\* sibling rendered after them
C6_Witness ==
    /\ RunEnded("done")
    /\ \E j \in EntryIdx : \E k \in EntryIdx : \E m \in EntryIdx :
          /\ IsProperPrefix(origin[j], origin[k])
          /\ Len(origin[k]) = Len(origin[j]) + 2
          /\ m > k /\ Parent(origin[m]) = Parent(origin[j])

\* one extension for each of the first m ancestors of p, the root not counted
RECURSIVE Extensions(_, _)
Extensions(p, m) ==
    IF m = 0 THEN <<>>
    ELSE Extensions(p, m - 1)
         \o (IF IsLastKept(SubSeq(p, 1, m)) THEN <<32, 32, 32, 32>> ELSE <<9474, 32, 32, 32>>)

\* C7: the text before the connector of a line is one 4-character extension for
\* each ancestor directory between the entry and the root: four spaces when that
\* ancestor was the last retained entry of its level, a bar and three spaces
\* otherwise.
C7_PrefixFromAncestors ==
    \A k \in EntryIdx :
        /\ Len(PrefixOf(out[k])) = 4 * (Len(origin[k]) - 1)
        /\ PrefixOf(out[k]) = Extensions(origin[k], Len(origin[k]) - 1)

\* a line three levels down whose first ancestor was not the last of its level
\* and whose second ancestor was
C7_Witness ==
    \E k \in EntryIdx :
        /\ Len(origin[k]) = 3
        /\ ~ IsLastKept(SubSeq(origin[k], 1, 1))
        /\ IsLastKept(SubSeq(origin[k], 1, 2))

\* the size print_tree read for the line k: -1 when the read fails; the output
\* file, truncated by open(), holds what has left the buffer by then
SizeRead(k) ==
    IF ~ fs[origin[k]].ok THEN -1
    ELSE IF origin[k] = OutFile THEN DiskSize(SubSeq(out, 1, k - 1))
    ELSE fs[origin[k]].size
StatusFor(size) ==
    IF size < 0 THEN <<91, 63, 93>>
    ELSE IF size = 0 THEN <<91, 69, 77, 80, 84, 89, 93>>
    ELSE <<91, 79, 75, 93>>
\* the lines written for the path p
LinesFor(p) == {k \in EntryIdx : origin[k] = p}
\* the retained entries of the listed directories that are no directories
KeptFiles == {p \in DOMAIN fs : p # <<>> /\ Parent(p) \in Listed
                                /\ Base(p) \in Kept(Parent(p)) /\ ~ fs[p].isdir}

\* C8 as the specification states it: every retained entry that is no directory
\* gets exactly one line, with the status of the size read, whatever else happens
\* in the run.
C8_EveryFileOneLine ==
    (RunEnded("done") \/ RunEnded("aborted")) =>
        \A p \in KeptFiles :
            /\ Cardinality(LinesFor(p)) = 1
            /\ \A k \in LinesFor(p) : StatusOf(out[k]) = StatusFor(SizeRead(k))

\* C8, amended: every line of an entry that is no directory has the status of
\* the size read ([EMPTY] for 0, [OK] for 1 or more, [?] for a failed read) and
\* no such entry is written twice; a failed read never ends the run (a run is
\* never cut short after a file line); and in a run that no listing failure
\* aborts every retained entry that is no directory gets exactly one line.
C8_StatusBySizeRead ==
    /\ \A k \in EntryIdx :
          ~ fs[origin[k]].isdir =>
              /\ ~ IsDirLine(out[k])
              /\ StatusOf(out[k]) = StatusFor(SizeRead(k))
              /\ Cardinality(LinesFor(origin[k])) = 1
    /\ \A r \in 1..Len(history) :
          history[r].status = "aborted" =>
              IsDirLine(history[r].content[Len(history[r].content)])
    /\ RunEnded("done") => \A p \in KeptFiles : Cardinality(LinesFor(p)) = 1

\* a finished run with a [?] line, an [OK] line and an [EMPTY] line, the [?]
\* line followed by a sibling directory and a line below that
C8_Witness ==
    /\ RunEnded("done")
    /\ \E k \in EntryIdx : \E m \in EntryIdx : \E n \in EntryIdx :
          /\ ~ fs[origin[k]].isdir /\ StatusOf(out[k]) = <<91, 63, 93>>
          /\ m > k /\ Parent(origin[m]) = Parent(origin[k]) /\ fs[origin[m]].isdir
          /\ Parent(origin[n]) = origin[m]
    /\ \E k \in EntryIdx : ~ fs[origin[k]].isdir /\ StatusOf(out[k]) = <<91, 79, 75, 93>>
    /\ \E k \in EntryIdx : ~ fs[origin[k]].isdir /\ StatusOf(out[k]) = <<91, 69, 77, 80, 84, 89, 93>>

\* the runs that printed the confirmation line are the runs that ended normally
DoneRuns == {r \in 1..Len(history) : history[r].status = "done"}

\* C9: a directory listing that fails, at the root or below it, is caught
\* nowhere: the run ends with the failing directory's own line as the last line
\* written and prints no confirmation line; the confirmation line is printed only
\* once the traversal is complete and the file is closed.
C9_ListFailureAborts ==
    /\ RunEnded("aborted") =>
          /\ out = history[run].content
          /\ ~ fopen
          /\ IF Len(out) = 2 THEN ~ fs[<<>>].ok
             ELSE LET d == origin[Len(out)]
                  IN fs[d].isdir /\ ~ fs[d].ok /\ NameOf(out[Len(out)]) = Base(d)
    /\ RunEnded("done") =>
          /\ \A d \in Levels : fs[d].ok /\ OneLinePerKept(d)
          /\ ~ fopen /\ fs[OutFile].size = Written(out)
    /\ Len(stdout) = Cardinality(DoneRuns)
    /\ pc = "print" => ~ fopen /\ stack = <<>>

\* a run aborted by a directory below the root that cannot be listed, with a
\* retained sibling after it that was never rendered
C9_Witness ==
    /\ RunEnded("aborted")
    /\ Len(out) > 2
    /\ ~ IsLastKept(origin[Len(out)])
    /\ stdout = <<>>

RECURSIVE Flat(_)
Flat(chunks) == IF chunks = <<>> THEN <<>> ELSE Head(chunks) \o Flat(Tail(chunks))
\* a text without its first line
AfterFirstLine(t) ==
    LET nl == CHOOSE c \in 1..Len(t) : t[c] = 10 /\ \A j \in 1..(c - 1) : t[j] # 10
    IN SubSeq(t, nl + 1, Len(t))

\* C10: a second run on the unchanged tree leaves the output file with the
\* content of the first run, the timestamp line apart; so too when the root had
\* no docs/ before the first run.
C10_RerunSameContent ==
    (run = 2 /\ pc = "idle" /\ history[1].status # "failed") =>
        /\ history[2].status = history[1].status
        /\ out = history[2].content
        /\ AfterFirstLine(Flat(history[2].content)) = AfterFirstLine(Flat(history[1].content))

\* two finished runs, a second apart, on a root that had no docs/ before the
\* first and has entries of its own
C10_Witness ==
    /\ run = 2 /\ pc = "idle"
    /\ history[1].status = "done" /\ history[2].status = "done"
    /\ OutDir \notin DOMAIN fs0
    /\ history[1].content[1] # history[2].content[1]
    /\ Len(out) >= 6

====
